---- MODULE Spec2Model ----
(***************************************************************************)
(* HttpInstrument (src/unnamed/part_000): the webRequest listeners, the    *)
(* request / redirect / response handlers and the listener lifecycle.      *)
(* PendingRequest, PendingResponse, the body capture listener, the POST    *)
(* parser and escapeString live in ../lib, which is not part of the        *)
(* sources at hand; they are modelled from the specification's text.       *)
(***************************************************************************)
EXTENDS Integers, Sequences, FiniteSets, TLC

\* ------------------------------------------------------------- bounds
MaxTid == 2
MaxRuns == 2
MaxCleanups == 2
MaxEvents == 2
TickMs == 1000
MaxNow == 1000
MaxHostEvents == 4
MaxStopEvents == 3
MaxMessages == 2

\* -------------------------------------------------- program constants
TimeoutMs == 1000
Null == 0

\* ------------------------------------------------------- input domains
ChannelOrder ==
    <<"onBeforeRequest", "onBeforeSendHeaders", "onBeforeRedirect", "onCompleted">>
Channels == {ChannelOrder[i] : i \in 1..4}
TIDs == 1..MaxTid
Gens == 1..MaxRuns
\* a URL or header value is a sequence of tokens; <<>> is an absent (falsy) one
NoUrl == <<>>
WebOrigin == <<"https://", "a.example">>
ExtOrigin == <<"moz-extension://", "uuid", "/feature.js">>
EmbeddedOrigin == <<"https://", "a.example", "/?next=", "moz-extension://", "uuid">>
Origins == {NoUrl, WebOrigin, ExtOrigin, EmbeddedOrigin}
Methods == {"GET", "POST"}
ResourceTypes == {"script", "image"}
FormType == <<"application/x-www-form-urlencoded">>
OcspType == <<"application/ocsp-request">>
HeaderLists ==
    { <<>>,
      << <<"Content-Type", FormType>> >>,
      << <<"Content-Type", OcspType>> >> }
\* details.requestBody: none, an upload the parser decodes, one it cannot decode
\* (the parser returns an empty result, or throws)
\* an upload on which the parser's call throws
ThrowingBody == "throwing"
RequestBodies == {"absent", "multipart", "undecodable", ThrowingBody}
\* details.tabId: -1 for a request that belongs to no tab
TabIds == {-1, 1}
\* run(): 0 = every addListener succeeds, k = the k-th addListener throws
FailAts == {0, 3}
TabUrls == {"https://top.example/"}
CrawlIDs == {"crawl-1"}
Bodies == {"hello"}
ErrorSentinel == "<error>"
TimeoutMessage ==
    "Pending request timed out waiting for data from both onBeforeRequest and onBeforeSendHeaders events"
\* the error objects the catch block of logWithResponseBody can receive:
\* the TypeError of calling getResponseBody on an undefined listener (its text
\* is the engine's), and the rejections of the two accessors
NoListenerError ==
    [name |-> "TypeError",
     message |-> "Cannot read properties of undefined (reading 'getResponseBody')",
     stack |-> "<stack of TypeError>"]
BodyRejection ==
    [name |-> "Error", message |-> "getResponseBody rejected",
     stack |-> "<stack of getResponseBody>"]
HashRejection ==
    [name |-> "Error", message |-> "getContentHash rejected",
     stack |-> "<stack of getContentHash>"]
\* the concatenation of lines 534-539, as tokens
CaptureMessage(err) ==
    <<"Unable to retrieve response body.",
      "Likely caused by a programming error. Error Message:",
      err.name, err.message, "\n", err.stack>>
Policies == [saveJavascript : BOOLEAN, saveAllContent : BOOLEAN]

VARIABLES
    fields,            \* this.onBeforeRequestListener ... : channel -> generation, 0 = undefined
    subs,              \* the browser's side: channel -> set of subscribed listeners
    cfg,               \* what each run()'s closures captured: generation -> config
    life,              \* history of the lifecycle calls
    pendingRequests,   \* requestId -> PendingRequest, or NoPendingRequest
    pendingResponses,  \* requestId -> PendingResponse, or NoPendingResponse
    listeners,         \* the body capture listener objects ever constructed
    asm,               \* the onBeforeSendHeadersHandler invocations (async)
    rasm,              \* the logWithResponseBody invocations that suspended
    sink,              \* dataReceiver: the calls it received, in order
    now,               \* the clock, ms
    last,              \* the event handled last, and how many were handled
    js                 \* the JavascriptInstrument: its field, its subscription, its history

vars == <<fields, subs, cfg, life, pendingRequests, pendingResponses,
          listeners, asm, rasm, sink, now, last, js>>

\* ------------------------------------------------------------ helpers
\* String.prototype.indexOf, on token sequences
IndexOf(s, tok) ==
    IF \E i \in 1..Len(s) : s[i] = tok
    THEN (CHOOSE i \in 1..Len(s) : s[i] = tok /\ \A j \in 1..(i - 1) : s[j] # tok) - 1
    ELSE -1

boolToInt(b) == IF b THEN 1 ELSE 0

\* escapeString re-encodes a string as UTF-8; the tokens used here are ASCII,
\* which it leaves as they are
escapeString(s) == s

\* Date.prototype.toISOString for instants of 1970-01-01 (ms since the epoch)
toISOString(ms) ==
    <<1970, 1, 1, ms \div 3600000, (ms \div 60000) % 60, (ms \div 1000) % 60, ms % 1000>>

\* a filter that lets every event through
requestStemsFromExtension_Never(details) == FALSE

\* lines 68-72
requestStemsFromExtension(details) ==
    /\ details.originUrl # NoUrl
    /\ IndexOf(details.originUrl, "moz-extension://") > -1

\* a test that takes every resource type for a script
isJS_Any(resourceType) == TRUE

\* lines 555-557
isJS(resourceType) == resourceType = "script"

\* a listener that attaches a body capture listener whatever the policy
shouldAttach_Always(c, resourceType) == TRUE

\* onBeforeRequestListener, lines 88-92: whether a body capture listener is attached
shouldAttach(c, resourceType) ==
    IF c.saveAllContent THEN TRUE
    ELSE IF c.saveJavascript /\ isJS(resourceType) THEN TRUE
    ELSE FALSE

\* a handler that takes the capture path for every completed event
shouldCapture_Always(c, resourceType) == TRUE

\* onCompletedHandler, lines 629-635: whether the record waits for the body
shouldCapture(c, resourceType) ==
    IF c.saveAllContent THEN TRUE
    ELSE IF c.saveJavascript /\ isJS(resourceType) THEN TRUE
    ELSE FALSE

ChannelIndex(c) == CHOOSE i \in 1..4 : ChannelOrder[i] = c

\* ----------------------------------------------------- event details
NoDetails ==
    [requestId |-> 0, originUrl |-> NoUrl, method |-> "GET", type |-> "image",
     requestHeaders |-> <<>>, requestBody |-> "absent", tabId |-> 1,
     fromCache |-> FALSE, timeStamp |-> 0]

\* --------------------------------- PendingRequest / PendingResponse
\* writes counts the resolve calls the slot has received
EmptySlot == [resolved |-> FALSE, val |-> NoDetails, writes |-> 0]

\* resolve(value): stores the value and releases the waiters; a repeated
\* resolution overwrites (last write wins)
ResolveSlot(slot, value) ==
    [resolved |-> TRUE, val |-> value, writes |-> slot.writes + 1]

NoPendingRequest == [exists |-> FALSE, body |-> EmptySlot, headers |-> EmptySlot]
NewPendingRequest == [exists |-> TRUE, body |-> EmptySlot, headers |-> EmptySlot]
NoPendingResponse ==
    [exists |-> FALSE, body |-> EmptySlot, completed |-> EmptySlot, listener |-> 0]
NewPendingResponse ==
    [exists |-> TRUE, body |-> EmptySlot, completed |-> EmptySlot, listener |-> 0]

\* PendingRequest.resolved(): both fragments are there
Resolved(pr) == pr.body.resolved /\ pr.headers.resolved

\* a body capture listener: the state of its two accessors
NewListener(id) ==
    [requestId |-> id, body |-> "pending", bytes |-> "", hash |-> "pending"]

\* the digest getContentHash() yields for the bytes
ContentHash(bytes) == <<"sha256", bytes>>

\* a lookup that hands out a new buffer at every reference
getPendingRequest_Fresh(requests, requestId) ==
    [requests EXCEPT ![requestId] = NewPendingRequest]

\* lines 168-173
getPendingRequest(requests, requestId) ==
    IF ~requests[requestId].exists
    THEN [requests EXCEPT ![requestId] = NewPendingRequest]
    ELSE requests

getPendingResponse(responses, requestId) ==
    IF ~responses[requestId].exists
    THEN [responses EXCEPT ![requestId] = NewPendingResponse]
    ELSE responses

\* ------------------------------------- script instrumentation inputs
\* msg.namespace; "" is an absent (falsy) one
JsNamespace == "javascript-instrumentation"
Namespaces == {"", JsNamespace, "http-instrumentation"}
MessageTypes == {"logCall", "logValue", "logSettings"}
Operations == {"call", "get"}
\* data.args: undefined, or a list
NoArgs == [defined |-> FALSE, items |-> <<>>]
ArgLists == {NoArgs,
             [defined |-> TRUE, items |-> <<>>],
             [defined |-> TRUE, items |-> <<"x">>]}
\* msg.data: undefined, or the payload of a call or of a value access, with
\* or without an argument list
NoData == [defined |-> FALSE, scriptUrl |-> "", symbol |-> "", operation |-> "",
           value |-> "", args |-> NoArgs, timeStamp |-> ""]
MessageData ==
    {NoData} \cup
    [defined : {TRUE}, scriptUrl : {"https://a.example/s.js"}, symbol : {"window.name"},
     operation : Operations, value : {"v"}, args : ArgLists,
     timeStamp : {"1970-01-01T00:00:00.000Z"}]
Messages == [namespace : Namespaces, type : MessageTypes, data : MessageData]
\* sender.tab: undefined for a message that does not come from a tab
NoTab == [defined |-> FALSE, url |-> ""]
Senders == [url : {"https://a.example/frame"},
            tab : {NoTab} \cup [defined : {TRUE}, url : TabUrls]]
NoMessage == [namespace |-> "", type |-> "", data |-> NoData]
NoSender == [url |-> "", tab |-> NoTab]
NoJs == [onMessageListener |-> 0, subs |-> {}, crawlID |-> [g \in Gens |-> ""],
         runs |-> 0, cleanups |-> 0, removeCalls |-> 0, lastOp |-> "new",
         n |-> 0, msg |-> NoMessage, sender |-> NoSender]

\* ------------------------------------------------------------- Init
NoCfg == [crawlID |-> "", saveJavascript |-> FALSE, saveAllContent |-> FALSE]
NoLast == [n |-> 0, channel |-> "", gen |-> 0, details |-> NoDetails]

Init ==
    /\ fields = [c \in Channels |-> 0]
    /\ subs = [c \in Channels |-> {}]
    /\ cfg = [g \in Gens |-> NoCfg]
    /\ life = [runs |-> 0, cleanups |-> 0, removeCalls |-> 0, lastOp |-> "new",
               sinkAtStop |-> 0]
    /\ pendingRequests = [t \in TIDs |-> NoPendingRequest]
    /\ pendingResponses = [t \in TIDs |-> NoPendingResponse]
    /\ listeners = <<>>
    /\ asm = <<>>
    /\ rasm = <<>>
    /\ sink = <<>>
    /\ now = 0
    /\ last = NoLast
    /\ js = NoJs

engine == <<pendingRequests, pendingResponses, listeners, asm, rasm, sink>>

\* -------------------------------------------------------- lifecycle
\* run(crawlID, saveJavascript, saveAllContent); failAt = k: the k-th
\* addListener throws and run() ends there
Run(crawlID, policy, failAt) ==
    /\ life.runs < MaxRuns
    /\ LET g == life.runs + 1
           assigned == IF failAt = 0 THEN 4 ELSE failAt
           added == IF failAt = 0 THEN 4 ELSE failAt - 1
       IN /\ fields' = [c \in Channels |->
                           IF ChannelIndex(c) <= assigned THEN g ELSE fields[c]]
          /\ subs' = [c \in Channels |->
                           IF ChannelIndex(c) <= added THEN subs[c] \cup {g} ELSE subs[c]]
          /\ cfg' = [cfg EXCEPT ![g] =
                           [crawlID |-> crawlID,
                            saveJavascript |-> policy.saveJavascript,
                            saveAllContent |-> policy.saveAllContent]]
          /\ life' = [life EXCEPT !.runs = g,
                                  !.lastOp = IF failAt = 0 THEN "run" ELSE "runFailed"]
    /\ UNCHANGED <<engine, now, last, js>>

\* a cleanup() that skips the guards and always calls removeListener
cleanupGuard_Missing(c) == TRUE

cleanupGuard(c) == fields[c] # 0

\* a cleanup() that also abandons the handlers in flight and drops the buffers
Cleanup_Cancelling ==
    /\ life.cleanups < MaxCleanups
    /\ subs' = [c \in Channels |->
                   IF cleanupGuard(c) THEN subs[c] \ {fields[c]} ELSE subs[c]]
    /\ life' = [life EXCEPT !.cleanups = @ + 1,
                            !.removeCalls = @ + Cardinality({c \in Channels : cleanupGuard(c)}),
                            !.lastOp = "cleanup",
                            !.sinkAtStop = Len(sink)]
    /\ asm' = [i \in DOMAIN asm |-> [asm[i] EXCEPT !.pc = "rejected"]]
    /\ rasm' = [r \in DOMAIN rasm |-> [rasm[r] EXCEPT !.pc = "done"]]
    /\ pendingRequests' = [t \in TIDs |-> NoPendingRequest]
    /\ pendingResponses' = [t \in TIDs |-> NoPendingResponse]
    /\ UNCHANGED <<fields, cfg, listeners, sink, now, last, js>>

\* cleanup(); sinkAtStop notes how many data receiver calls had been made
Cleanup ==
    /\ life.cleanups < MaxCleanups
    /\ subs' = [c \in Channels |->
                   IF cleanupGuard(c) THEN subs[c] \ {fields[c]} ELSE subs[c]]
    /\ life' = [life EXCEPT !.cleanups = @ + 1,
                            !.removeCalls = @ + Cardinality({c \in Channels : cleanupGuard(c)}),
                            !.lastOp = "cleanup",
                            !.sinkAtStop = Len(sink)]
    /\ UNCHANGED <<fields, cfg, engine, now, last, js>>

\* ------------------------------------------------------ POST parser
PostBodyJson == "{k:v}"
MultipartHeaders ==
    << <<"Content-Disposition", <<"form-data">> >>,
       <<"X-Payload-Line", <<"not a header">> >>,
       <<"Content-Length", <<"42">> >> >>

\* HttpPostParser.parsePostRequest(encodingType) on the pre-request fragment:
\* a result with optional post_headers and post_body; a body it cannot decode
\* yields a result with neither, or makes the call throw
parsePostRequest(encodingType, frag) ==
    CASE frag.requestBody = "multipart" ->
            [post_headers |-> MultipartHeaders, post_body |-> PostBodyJson]
      [] frag.requestBody = ThrowingBody -> [threw |-> TRUE]
      [] OTHER -> [parsed |-> FALSE]

\* ------------------------------------------------- request assembler
\* an allow-list that lets every upload line through
contentHeaders_Open ==
    {"Content-Type", "Content-Disposition", "Content-Length", "X-Payload-Line"}

\* lines 307-311
contentHeaders == {"Content-Type", "Content-Disposition", "Content-Length"}

\* lines 264-280: the header pairs, in event order
HeaderPairs(requestHeaders) ==
    [i \in 1..Len(requestHeaders) |->
        <<escapeString(requestHeaders[i][1]), escapeString(requestHeaders[i][2])>>]

\* encodingType: the value of the last header named exactly Content-Type
EncodingType(requestHeaders) ==
    LET idx == {i \in 1..Len(requestHeaders) : requestHeaders[i][1] = "Content-Type"}
    IN IF idx = {} THEN <<>>
       ELSE requestHeaders[CHOOSE i \in idx : \A j \in idx : j <= i][2]

\* a scan that recognises no OCSP request
IsOcsp_Never(requestHeaders) == FALSE

\* lines 265-280
IsOcsp(requestHeaders) ==
    \E i \in 1..Len(requestHeaders) :
        /\ requestHeaders[i][1] = "Content-Type"
        /\ IndexOf(requestHeaders[i][2], "application/ocsp-request") # -1

\* lines 237-261: the record before the body and the tab are known
NewUpdate(c, details) ==
    [crawl_id |-> c.crawlID,
     request_id |-> details.requestId,
     method |-> escapeString(details.method),
     time_stamp |-> toISOString(details.timeStamp)]

\* lines 329-409: the header list is serialised, the handler goes on to
\* browser.tabs.get
ToTabLookup(a, headers) ==
    [a EXCEPT !.pc = "tab", !.update = a.update @@ [headers |-> headers]]

\* lines 290-326: the wait resolved; frag is the pre-request fragment
AfterResolved(a, frag) ==
    IF frag.requestBody = "absent"
    THEN ToTabLookup(a, a.headers)
    ELSE LET postObj == parsePostRequest(a.encodingType, frag)
         IN
         IF "threw" \in DOMAIN postObj
         THEN \* line 299 is inside no try block: the handler's promise rejects
              [a EXCEPT !.pc = "rejected", !.threw = TRUE, !.doneAt = now]
         ELSE
         LET recovered ==
                 IF "post_headers" \in DOMAIN postObj
                 THEN LET kept == SelectSeq(postObj.post_headers,
                                            LAMBDA h : h[1] \in contentHeaders)
                      IN [i \in 1..Len(kept) |->
                            <<escapeString(kept[i][1]), escapeString(kept[i][2])>>]
                 ELSE <<>>
             withBody ==
                 IF "post_body" \in DOMAIN postObj
                 THEN [a EXCEPT !.update = a.update @@ [post_body |-> postObj.post_body]]
                 ELSE a
         IN ToTabLookup(withBody, a.headers \o recovered)

\* resolvedWithinTimeout: the wait depends on the host while a fragment is missing
waitNeeded(pr) == ~Resolved(pr)

\* a wait that gives up when the fragment arrives after the handler suspended
ReleaseWaiter_Degraded(a, pr) ==
    IF a.waited THEN ToTabLookup(a, a.headers) ELSE AfterResolved(a, pr.body.val)

\* lines 290-326: the handler resumes from the await of line 290 and reads the
\* pre-request fragment the buffer holds at that moment
ReleaseWaiter(a, pr) == AfterResolved(a, pr.body.val)

\* onBeforeSendHeadersHandler up to its first suspension: the await of line 284
\* for a POST that is not OCSP (whether or not the fragments are there), the
\* await of line 410 otherwise
StartAssembly(g, details, pr) ==
    LET a0 == [gen |-> g,
               ev |-> last.n + 1,
               requestId |-> details.requestId,
               details |-> details,
               tabId |-> details.tabId,
               pc |-> "start",
               needsBody |-> details.method = "POST" /\ ~IsOcsp(details.requestHeaders),
               bodyAtStart |-> pr.body.resolved,
               \* how many pre-send-headers / pre-request events this buffer
               \* had received when the handler started
               txn |-> pr.headers.writes,
               bodyWrites |-> pr.body.writes,
               threw |-> FALSE,
               waited |-> FALSE,
               waitStart |-> now,
               timedOut |-> FALSE,
               doneAt |-> 0,
               encodingType |-> EncodingType(details.requestHeaders),
               headers |-> HeaderPairs(details.requestHeaders),
               update |-> NewUpdate(cfg[g], details)]
    IN IF a0.needsBody
       THEN [a0 EXCEPT !.pc = "wait", !.waited = waitNeeded(pr)]
       ELSE ToTabLookup(a0, a0.headers)

\* a call of the data receiver, with the number of the event whose handling made it
SinkCall(op, table, ev, rec) == [op |-> op, table |-> table, ev |-> ev, rec |-> rec]

\* ------------------------------------------------------ the listeners
\* a dispatcher that holds events back while a request handler is suspended
Delivered_Blocking(channel, g, details) ==
    /\ \A i \in DOMAIN asm : asm[i].pc \notin {"wait", "read", "tab"}
    /\ g \in subs[channel]
    /\ details.timeStamp = now
    /\ last' = [n |-> last.n + 1, channel |-> channel, gen |-> g, details |-> details]
    /\ UNCHANGED <<js, fields, subs, cfg, life, now>>

\* the browser invokes a subscribed listener with an event
Delivered(channel, g, details) ==
    /\ g \in subs[channel]
    /\ details.timeStamp = now
    /\ last' = [n |-> last.n + 1, channel |-> channel, gen |-> g, details |-> details]
    /\ UNCHANGED <<js, fields, subs, cfg, life, now>>

\* onBeforeRequestListener
BeforeRequest(g, details) ==
    /\ Delivered("onBeforeRequest", g, details)
    /\ IF requestStemsFromExtension(details)
       THEN UNCHANGED engine
       ELSE LET id == details.requestId
                pr1 == getPendingRequest(pendingRequests, id)
                pr2 == [pr1 EXCEPT ![id].body = ResolveSlot(@, details)]
                ps1 == getPendingResponse(pendingResponses, id)
                ps2 == [ps1 EXCEPT ![id].body = ResolveSlot(@, details)]
                attach == shouldAttach(cfg[g], details.type)
            IN /\ pendingRequests' = pr2
               /\ pendingResponses' =
                    IF attach THEN [ps2 EXCEPT ![id].listener = Len(listeners) + 1]
                    ELSE ps2
               \* txn: the pre-request event of this id that attached the listener
               /\ listeners' =
                    IF attach
                    THEN Append(listeners,
                                NewListener(id) @@ [txn |-> ps2[id].body.writes])
                    ELSE listeners
               /\ UNCHANGED <<asm, rasm, sink>>

\* a listener that starts the handler without resolving the headers fragment
ResolveHeadersFragment_Skipped(requests, details) == requests

\* onBeforeSendHeadersListener, lines 108-109
ResolveHeadersFragment(requests, details) ==
    LET pr == getPendingRequest(requests, details.requestId)
    IN [pr EXCEPT ![details.requestId].headers = ResolveSlot(@, details)]

\* onBeforeSendHeadersListener and its handler up to the first await
BeforeSendHeaders(g, details) ==
    /\ Delivered("onBeforeSendHeaders", g, details)
    /\ IF requestStemsFromExtension(details)
       THEN UNCHANGED engine
       ELSE LET id == details.requestId
                pr1 == ResolveHeadersFragment(pendingRequests, details)
                \* line 283: the handler's own getPendingRequest
                pr2 == getPendingRequest(pr1, id)
            IN /\ pendingRequests' = pr2
               /\ asm' = Append(asm, StartAssembly(g, details, pr2[id]))
               /\ UNCHANGED <<pendingResponses, listeners, rasm, sink>>

\* resolvedWithinTimeout(1000) resolves true: the handler resumes from the
\* await of line 284 and suspends again at the await of line 290
WaitResolved(i) ==
    /\ asm[i].pc = "wait"
    /\ Resolved(pendingRequests[asm[i].requestId])
    /\ asm' = [asm EXCEPT ![i] = [@ EXCEPT !.pc = "read"]]
    /\ UNCHANGED <<js, fields, subs, cfg, life, pendingRequests, pendingResponses,
                   listeners, rasm, sink, now, last>>

\* the handler resumes from the await of line 290: lines 291-409
ReadBody(i) ==
    /\ asm[i].pc = "read"
    /\ asm' = [asm EXCEPT ![i] = ReleaseWaiter(@, pendingRequests[@.requestId])]
    /\ UNCHANGED <<js, fields, subs, cfg, life, pendingRequests, pendingResponses,
                   listeners, rasm, sink, now, last>>

\* the timer of resolvedWithinTimeout(1000) fires while a fragment is still
\* missing: lines 285-288
Timeout(i) ==
    /\ asm[i].pc = "wait"
    /\ ~Resolved(pendingRequests[asm[i].requestId])
    /\ now >= asm[i].waitStart + TimeoutMs
    /\ sink' = Append(sink, SinkCall("logError", "", asm[i].ev, [message |-> TimeoutMessage]))
    /\ asm' = [asm EXCEPT ![i] = ToTabLookup([@ EXCEPT !.timedOut = TRUE], @.headers)]
    /\ UNCHANGED <<js, fields, subs, cfg, life, pendingRequests, pendingResponses,
                   listeners, rasm, now, last>>

\* browser.tabs.get resolves: lines 410-417
TabResolve(i, url) ==
    /\ asm[i].pc = "tab"
    /\ asm[i].tabId >= 0
    /\ LET update == asm[i].update @@ [top_level_url |-> escapeString(url)]
       IN /\ sink' = Append(sink, SinkCall("saveRecord", "http_requests", asm[i].ev, update))
          /\ asm' = [asm EXCEPT ![i] = [@ EXCEPT !.pc = "done", !.update = update,
                                                 !.doneAt = now]]
    /\ UNCHANGED <<js, fields, subs, cfg, life, pendingRequests, pendingResponses,
                   listeners, rasm, now, last>>

\* browser.tabs.get rejects (no such tab): the handler's promise rejects at line 410
TabReject(i) ==
    /\ asm[i].pc = "tab"
    /\ asm' = [asm EXCEPT ![i] = [@ EXCEPT !.pc = "rejected", !.doneAt = now]]
    /\ UNCHANGED <<js, fields, subs, cfg, life, pendingRequests, pendingResponses,
                   listeners, rasm, sink, now, last>>

\* ------------------------------------------------- redirect recorder
\* a recorder that guesses the successor's id
RedirectRecord_Stitched(crawlID, details) ==
    [crawl_id |-> crawlID,
     old_request_id |-> details.requestId,
     new_request_id |-> details.requestId + 1,
     time_stamp |-> toISOString(details.timeStamp)]

\* onBeforeRedirectHandler: lines 496-503
RedirectRecord(crawlID, details) ==
    [crawl_id |-> crawlID,
     old_request_id |-> details.requestId,
     new_request_id |-> Null,
     time_stamp |-> toISOString(details.timeStamp)]

\* onBeforeRedirectListener
BeforeRedirect(g, details) ==
    /\ Delivered("onBeforeRedirect", g, details)
    /\ IF requestStemsFromExtension(details)
       THEN UNCHANGED engine
       ELSE /\ sink' = Append(sink, SinkCall("saveRecord", "http_redirects", last.n + 1,
                                             RedirectRecord(cfg[g].crawlID, details)))
            /\ UNCHANGED <<pendingRequests, pendingResponses, listeners, asm, rasm>>

\* ------------------------------------------------ response assembler
\* lines 580-627
ResponseUpdate(c, details) ==
    [crawl_id |-> c.crawlID,
     request_id |-> details.requestId,
     is_cached |-> boolToInt(details.fromCache),
     time_stamp |-> toISOString(details.timeStamp)]

\* a catch block that logs and drops the record
CaptureFailed_Dropped(ev, update, err) ==
    << SinkCall("logError", "", ev, [message |-> CaptureMessage(err)]) >>

\* logWithResponseBody, the catch block: lines 524-543
CaptureFailed(ev, update, err) ==
    << SinkCall("logError", "", ev, [message |-> CaptureMessage(err)]),
       SinkCall("saveRecord", "http_responses", ev,
                update @@ [content_hash |-> ErrorSentinel]) >>

\* logWithResponseBody, the try block after both awaits: lines 519-523
CaptureSucceeded(ev, update, respBody, contentHash) ==
    << SinkCall("saveContent", "", ev,
                [content |-> escapeString(respBody), hash |-> escapeString(contentHash)]),
       SinkCall("saveRecord", "http_responses", ev, update) >>

\* onCompletedListener and onCompletedHandler, with logWithResponseBody up to
\* its first suspension
Completed(g, details) ==
    /\ Delivered("onCompleted", g, details)
    /\ IF requestStemsFromExtension(details)
       THEN UNCHANGED engine
       ELSE LET id == details.requestId
                ev == last.n + 1
                ps1 == getPendingResponse(pendingResponses, id)
                ps2 == [ps1 EXCEPT ![id].completed = ResolveSlot(@, details)]
                update == ResponseUpdate(cfg[g], details)
                capture == shouldCapture(cfg[g], details.type)
                responseBodyListener == ps2[id].listener
            IN /\ pendingResponses' = ps2
               /\ IF ~capture
                  THEN /\ sink' = Append(sink, SinkCall("saveRecord", "http_responses",
                                                        ev, update))
                       /\ rasm' = rasm
                  ELSE IF responseBodyListener = 0
                  THEN \* undefined.getResponseBody(): a TypeError inside the try
                       /\ sink' = sink \o CaptureFailed(ev, update, NoListenerError)
                       /\ rasm' = rasm
                  ELSE /\ sink' = sink
                       /\ rasm' = Append(rasm,
                                         [gen |-> g, ev |-> ev, requestId |-> id,
                                          txn |-> ps2[id].completed.writes,
                                          listener |-> responseBodyListener,
                                          pc |-> "awaitBody", respBody |-> "",
                                          update |-> update])
               /\ UNCHANGED <<pendingRequests, listeners, asm>>

\* the response stream of a body capture listener ends: its accessors settle
StreamEnd(l, outcome, bytes) ==
    /\ listeners[l].body = "pending"
    /\ listeners' = [listeners EXCEPT ![l] =
          CASE outcome = "ok" ->
                  [@ EXCEPT !.body = "ok", !.bytes = bytes, !.hash = "ok"]
            [] outcome = "hashFail" ->
                  [@ EXCEPT !.body = "ok", !.bytes = bytes, !.hash = "fail"]
            [] OTHER ->
                  [@ EXCEPT !.body = "fail", !.hash = "fail"]]
    /\ UNCHANGED <<js, fields, subs, cfg, life, pendingRequests, pendingResponses,
                   asm, rasm, sink, now, last>>

\* await responseBodyListener.getResponseBody() settles: line 517
ContinueBody(r) ==
    /\ rasm[r].pc = "awaitBody"
    /\ listeners[rasm[r].listener].body # "pending"
    /\ IF listeners[rasm[r].listener].body = "ok"
       THEN /\ rasm' = [rasm EXCEPT ![r] =
                          [@ EXCEPT !.pc = "awaitHash",
                                    !.respBody = listeners[rasm[r].listener].bytes]]
            /\ sink' = sink
       ELSE /\ rasm' = [rasm EXCEPT ![r] = [@ EXCEPT !.pc = "done"]]
            /\ sink' = sink \o CaptureFailed(rasm[r].ev, rasm[r].update, BodyRejection)
    /\ UNCHANGED <<js, fields, subs, cfg, life, pendingRequests, pendingResponses,
                   listeners, asm, now, last>>

\* await responseBodyListener.getContentHash() settles: line 518
ContinueHash(r) ==
    /\ rasm[r].pc = "awaitHash"
    /\ listeners[rasm[r].listener].hash # "pending"
    /\ IF listeners[rasm[r].listener].hash = "ok"
       THEN /\ rasm' = [rasm EXCEPT ![r] = [@ EXCEPT !.pc = "done"]]
            /\ sink' = sink \o CaptureSucceeded(rasm[r].ev, rasm[r].update, rasm[r].respBody,
                                                ContentHash(rasm[r].respBody))
       ELSE /\ rasm' = [rasm EXCEPT ![r] = [@ EXCEPT !.pc = "done"]]
            /\ sink' = sink \o CaptureFailed(rasm[r].ev, rasm[r].update, HashRejection)
    /\ UNCHANGED <<js, fields, subs, cfg, life, pendingRequests, pendingResponses,
                   listeners, asm, now, last>>

\* ---------------------------------------------------------- the clock
Tick ==
    /\ now + TickMs <= MaxNow
    /\ now' = now + TickMs
    /\ UNCHANGED <<js, fields, subs, cfg, life, engine, last>>

\* ------------------------------------------------------ specification
\* Each event is delivered to one subscribed listener at a time: a listener
\* invocation, up to the first await of the handler it starts, is one step,
\* whatever else is subscribed to the channel; what a handler does after an
\* await is a step of its own.
\* The origin only decides whether the listener discards the event, so the
\* other fields vary under one origin and each other origin comes with the
\* fields of NoDetails.
OriginOnly ==
    {[NoDetails EXCEPT !.requestId = id, !.originUrl = o, !.timeStamp = now] :
        id \in TIDs, o \in Origins \ {WebOrigin}}

BeforeRequestDetails ==
    OriginOnly \cup
    {[NoDetails EXCEPT !.requestId = id, !.originUrl = WebOrigin, !.type = t,
                       !.requestBody = b, !.timeStamp = now] :
        id \in TIDs, t \in ResourceTypes, b \in RequestBodies}

BeforeSendHeadersDetails ==
    OriginOnly \cup
    {[NoDetails EXCEPT !.requestId = id, !.originUrl = WebOrigin, !.method = m,
                       !.requestHeaders = h, !.tabId = tab, !.timeStamp = now] :
        id \in TIDs, m \in Methods, h \in HeaderLists, tab \in TabIds}

BeforeRedirectDetails ==
    {[NoDetails EXCEPT !.requestId = id, !.originUrl = o, !.timeStamp = now] :
        id \in TIDs, o \in Origins}

CompletedDetails ==
    OriginOnly \cup
    {[NoDetails EXCEPT !.requestId = id, !.originUrl = WebOrigin, !.type = t,
                       !.fromCache = fc, !.timeStamp = now] :
        id \in TIDs, t \in ResourceTypes, fc \in BOOLEAN}

\* the first start of the instrument, every subscription succeeding
Start(crawlID, policy) ==
    /\ life.runs = 0
    /\ Run(crawlID, policy, 0)

Next ==
    \/ \E c \in CrawlIDs, p \in Policies : Start(c, p)
    \/ \E g \in Gens, d \in BeforeRequestDetails :
          last.n < MaxEvents /\ BeforeRequest(g, d)
    \/ \E g \in Gens, d \in BeforeSendHeadersDetails :
          last.n < MaxEvents /\ BeforeSendHeaders(g, d)
    \/ \E g \in Gens, d \in BeforeRedirectDetails :
          last.n < MaxEvents /\ BeforeRedirect(g, d)
    \/ \E g \in Gens, d \in CompletedDetails :
          last.n < MaxEvents /\ Completed(g, d)
    \/ \E i \in DOMAIN asm : WaitResolved(i)
    \/ \E i \in DOMAIN asm : ReadBody(i)
    \/ \E i \in DOMAIN asm : Timeout(i)
    \/ \E i \in DOMAIN asm, url \in TabUrls : TabResolve(i, url)
    \/ \E i \in DOMAIN asm : TabReject(i)
    \/ \E l \in DOMAIN listeners, o \in {"ok", "hashFail", "bodyFail"}, b \in Bodies :
          StreamEnd(l, o, b)
    \/ \E r \in DOMAIN rasm : ContinueBody(r)
    \/ \E r \in DOMAIN rasm : ContinueHash(r)
    \/ Tick

\* one started instrument and the traffic it sees
Spec == Init /\ [][Next]_vars

\* the lifecycle alone: any sequence of run() and cleanup() calls, with the
\* redirect channel delivering page traffic to whatever is still subscribed
NextLife ==
    \/ \E c \in CrawlIDs, p \in Policies, f \in FailAts : Run(c, p, f)
    \/ Cleanup
    \/ \E g \in Gens, d \in BeforeRedirectDetails :
          last.n < MaxEvents /\ d.originUrl = WebOrigin /\ BeforeRedirect(g, d)

SpecLife == Init /\ [][NextLife]_vars

\* ------------------------------------------------ a disciplined host
\* The browser's side of a transaction id: its pre-request and
\* pre-send-headers events come once each, in either order, its completed
\* event after both, and the id is used again only when the completed event
\* was delivered and every handler started for the id has ended.
Quiet(id) ==
    /\ \A i \in DOMAIN asm : asm[i].requestId = id => asm[i].pc \in {"done", "rejected"}
    /\ \A r \in DOMAIN rasm : rasm[r].requestId = id => rasm[r].pc = "done"

HostMayDeliver(channel, id) ==
    LET nRequest == pendingRequests[id].body.writes
        nHeaders == pendingRequests[id].headers.writes
        nCompleted == pendingResponses[id].completed.writes
    IN CASE channel = "onBeforeRequest" ->
                nRequest = nCompleted /\ (nHeaders = nCompleted => Quiet(id))
         [] channel = "onBeforeSendHeaders" ->
                nHeaders = nCompleted /\ (nRequest = nCompleted => Quiet(id))
         [] channel = "onCompleted" ->
                nRequest = nCompleted + 1 /\ nHeaders = nCompleted + 1
         [] OTHER -> nRequest > nCompleted \/ nHeaders > nCompleted

HostDetails(channel, id) ==
    LET d == [NoDetails EXCEPT !.requestId = id, !.originUrl = WebOrigin,
                               !.timeStamp = now]
    IN CASE channel = "onBeforeRequest" ->
                {[d EXCEPT !.type = t, !.requestBody = b] :
                    t \in ResourceTypes, b \in {"absent", "multipart"}}
         [] channel = "onBeforeSendHeaders" -> {[d EXCEPT !.method = "POST"]}
         [] channel = "onCompleted" ->
                {[d EXCEPT !.type = pendingResponses[id].body.val.type]}
         [] OTHER -> {d}

\* the listener the first run() subscribed to the channel handles the event
Handle(channel, d) ==
    CASE channel = "onBeforeRequest" -> BeforeRequest(1, d)
      [] channel = "onBeforeSendHeaders" -> BeforeSendHeaders(1, d)
      [] channel = "onCompleted" -> Completed(1, d)
      [] OTHER -> BeforeRedirect(1, d)

HostEvent(channel, id, d) ==
    /\ last.n < MaxHostEvents
    /\ HostMayDeliver(channel, id)
    /\ Handle(channel, d)

NextHost ==
    \/ \E c \in CrawlIDs, p \in Policies : Start(c, p)
    \/ \E ch \in Channels, id \in TIDs :
          \E d \in HostDetails(ch, id) : HostEvent(ch, id, d)
    \/ \E i \in DOMAIN asm : WaitResolved(i)
    \/ \E i \in DOMAIN asm : ReadBody(i)
    \/ \E i \in DOMAIN asm : Timeout(i)
    \/ \E i \in DOMAIN asm, url \in TabUrls : TabResolve(i, url)
    \/ \E l \in DOMAIN listeners, o \in {"ok", "bodyFail"}, b \in Bodies :
          StreamEnd(l, o, b)
    \/ \E r \in DOMAIN rasm : ContinueBody(r)
    \/ \E r \in DOMAIN rasm : ContinueHash(r)
    \/ Tick

SpecHost == Init /\ [][NextHost]_vars

\* ------------------------------------------- stopping under traffic
\* one started instrument, a few events in any order, and cleanup() called at
\* any moment
NextStop ==
    \/ \E c \in CrawlIDs, p \in Policies : Start(c, p)
    \/ \E ch \in Channels, id \in TIDs :
          \E d \in HostDetails(ch, id) :
              /\ last.n < MaxStopEvents
              /\ ch = "onBeforeRequest" => d.requestBody = "multipart"
              /\ Handle(ch, d)
    \/ Cleanup
    \/ \E i \in DOMAIN asm : WaitResolved(i)
    \/ \E i \in DOMAIN asm : ReadBody(i)
    \/ \E i \in DOMAIN asm : Timeout(i)
    \/ \E i \in DOMAIN asm, url \in TabUrls : TabResolve(i, url)
    \/ \E l \in DOMAIN listeners, o \in {"ok", "bodyFail"}, b \in Bodies :
          StreamEnd(l, o, b)
    \/ \E r \in DOMAIN rasm : ContinueBody(r)
    \/ \E r \in DOMAIN rasm : ContinueHash(r)
    \/ Tick

SpecStop == Init /\ [][NextStop]_vars

\* ============================================ the script instrument
\* JSON.stringify of an argument list, as tokens
RECURSIVE JsonItems(_)
JsonItems(items) ==
    IF items = <<>> THEN <<>>
    ELSE IF Len(items) = 1 THEN <<"\"", Head(items), "\"">>
    ELSE <<"\"", Head(items), "\"", ",">> \o JsonItems(Tail(items))

JsonStringify(items) == <<"[">> \o JsonItems(items) \o <<"]">>

\* line 32, data.operation === "call" && data.args.length > 0: reading the
\* length of an undefined argument list is a TypeError
hasArguments(data) ==
    IF data.operation # "call" THEN "false"
    ELSE IF ~data.args.defined THEN "TypeError"
    ELSE IF Len(data.args.items) > 0 THEN "true"
    ELSE "false"

\* processCallsAndValues(data, sender) of the closure made by run(crawlID):
\* the data receiver calls it makes (script_line, script_col, func_name,
\* script_loc_eval and call_stack are copied like script_url and left out).
\* Reading a property of undefined (data at line 16, sender.tab at line 30,
\* data.args at line 32) throws before saveRecord at line 36 is reached.
processCallsAndValues(crawlID, data, sender, ev) ==
    IF ~data.defined \/ ~sender.tab.defined \/ hasArguments(data) = "TypeError"
    THEN <<>>
    ELSE
    LET update == [crawl_id |-> crawlID,
                   script_url |-> escapeString(data.scriptUrl),
                   symbol |-> escapeString(data.symbol),
                   operation |-> escapeString(data.operation),
                   value |-> escapeString(data.value),
                   time_stamp |-> data.timeStamp,
                   document_url |-> escapeString(sender.url),
                   top_level_url |-> escapeString(sender.tab.url)]
    IN << SinkCall("saveRecord", "javascript", ev,
                   IF hasArguments(data) = "true"
                   THEN update @@ [arguments |->
                                     escapeString(JsonStringify(data.args.items))]
                   ELSE update) >>

\* this.onMessageListener of generation g: the data receiver calls it makes
onMessageListener(g, msg, sender, ev) ==
    IF msg.namespace # "" /\ msg.namespace = JsNamespace
                          /\ msg.type \in {"logCall", "logValue"}
    THEN processCallsAndValues(js.crawlID[g], msg.data, sender, ev)
    ELSE <<>>

\* browser.runtime.onMessage invokes its listeners in the order they were
\* added; a listener that throws does not keep the others from being invoked
RECURSIVE Dispatch(_, _, _, _)
Dispatch(g, msg, sender, ev) ==
    IF g > MaxRuns THEN <<>>
    ELSE (IF g \in js.subs THEN onMessageListener(g, msg, sender, ev) ELSE <<>>)
         \o Dispatch(g + 1, msg, sender, ev)

\* run(crawlID)
JsRun(crawlID) ==
    /\ js.runs < MaxRuns
    /\ LET g == js.runs + 1
       IN js' = [js EXCEPT !.onMessageListener = g,
                           !.subs = @ \cup {g},
                           !.crawlID[g] = crawlID,
                           !.runs = g,
                           !.lastOp = "run"]
    /\ UNCHANGED <<fields, subs, cfg, life, engine, now, last>>

\* cleanup()
JsCleanup ==
    /\ js.cleanups < MaxCleanups
    /\ LET set == js.onMessageListener # 0
       IN js' = [js EXCEPT !.subs = IF set THEN @ \ {js.onMessageListener} ELSE @,
                           !.removeCalls = IF set THEN @ + 1 ELSE @,
                           !.cleanups = @ + 1,
                           !.lastOp = "cleanup"]
    /\ UNCHANGED <<fields, subs, cfg, life, engine, now, last>>

\* a runtime message arrives
RuntimeMessage(msg, sender) ==
    /\ js.n < MaxMessages
    /\ sink' = sink \o Dispatch(1, msg, sender, js.n + 1)
    /\ js' = [js EXCEPT !.n = @ + 1, !.msg = msg, !.sender = sender,
                        !.lastOp = "message"]
    /\ UNCHANGED <<fields, subs, cfg, life, pendingRequests, pendingResponses,
                   listeners, asm, rasm, now, last>>

NextJs ==
    \/ \E c \in CrawlIDs : JsRun(c)
    \/ JsCleanup
    \/ \E m \in Messages, s \in Senders : RuntimeMessage(m, s)

SpecJs == Init /\ [][NextJs]_vars

\* ============================================================ claims
\* the calls of the data receiver made for event ev
Calls(op, table, ev) ==
    {i \in DOMAIN sink : sink[i].op = op /\ sink[i].table = table /\ sink[i].ev = ev}

Finished(a) == a.pc \in {"done", "rejected"}

SelfOriginated(details) ==
    \E i \in 1..Len(details.originUrl) : details.originUrl[i] = "moz-extension://"

\* C1 (as stated): a POST, non-OCSP request assembly whose body fragment never
\* arrived and whose wait therefore timed out has, once its handler has ended,
\* logged exactly one error and emitted exactly one http_requests record,
\* without post_body, no earlier than 1000 ms after the wait began; before
\* that it has emitted none.
C1_TimeoutStillEmitsOneRecord ==
    \A k \in DOMAIN asm :
        (asm[k].needsBody /\ asm[k].timedOut) =>
            /\ Cardinality(Calls("logError", "", asm[k].ev)) = 1
            /\ Finished(asm[k]) =>
                 /\ Cardinality(Calls("saveRecord", "http_requests", asm[k].ev)) = 1
                 /\ \A i \in Calls("saveRecord", "http_requests", asm[k].ev) :
                        "post_body" \notin DOMAIN sink[i].rec
                 /\ asm[k].doneAt >= asm[k].waitStart + TimeoutMs

FailureRecorded(ev) ==
    /\ Cardinality(Calls("saveRecord", "http_responses", ev)) = 1
    /\ \A i \in Calls("saveRecord", "http_responses", ev) :
          /\ "content_hash" \in DOMAIN sink[i].rec
          /\ sink[i].rec.content_hash = "<error>"
    /\ Calls("logError", "", ev) # {}
    /\ Calls("saveContent", "", ev) = {}

CaptureWanted(c, type) ==
    c.saveAllContent \/ (c.saveJavascript /\ type = "script")

\* the completed event handled last asked for the body of a transaction to
\* which no body capture listener was ever attached
LastCompletedWithoutListener ==
    /\ last.channel = "onCompleted"
    /\ ~SelfOriginated(last.details)
    /\ CaptureWanted(cfg[last.gen], last.details.type)
    /\ pendingResponses[last.details.requestId].listener = 0

CaptureSettledFailed(r) ==
    /\ r.pc = "done"
    /\ \/ listeners[r.listener].body = "fail"
       \/ listeners[r.listener].hash = "fail"

\* C3: a completed event that requires body capture and whose capture fails
\* (an accessor rejects, or no listener was ever attached) yields exactly one
\* http_responses record, with content_hash "<error>", an error is logged
\* and saveContent is not called; no completed event yields two records.
C3_CaptureFailureSentinel ==
    /\ LastCompletedWithoutListener => FailureRecorded(last.n)
    /\ \A k \in DOMAIN rasm :
          /\ CaptureSettledFailed(rasm[k]) => FailureRecorded(rasm[k].ev)
          /\ Cardinality(Calls("saveRecord", "http_responses", rasm[k].ev)) <= 1
          /\ rasm[k].pc # "done" =>
                Calls("saveRecord", "http_responses", rasm[k].ev) = {}

\* getResponseBody resolved, getContentHash rejected
C3_Witness ==
    \E k \in DOMAIN rasm :
        /\ rasm[k].pc = "done"
        /\ listeners[rasm[k].listener].body = "ok"
        /\ listeners[rasm[k].listener].hash = "fail"
        /\ FailureRecorded(rasm[k].ev)

\* C4 (as stated): when capture succeeds with bytes B and hash H, saveContent(B, H)
\* is called exactly once, then exactly one http_responses record is emitted,
\* and that record's content_hash is H.
C4_RecordReferencesHash ==
    \A k \in DOMAIN rasm :
        (/\ rasm[k].pc = "done"
         /\ listeners[rasm[k].listener].body = "ok"
         /\ listeners[rasm[k].listener].hash = "ok") =>
            LET B == listeners[rasm[k].listener].bytes
                H == ContentHash(B)
                stored == Calls("saveContent", "", rasm[k].ev)
                records == Calls("saveRecord", "http_responses", rasm[k].ev)
            IN /\ Cardinality(stored) = 1
               /\ Cardinality(records) = 1
               /\ \A i \in stored, j \in records :
                     /\ i < j
                     /\ sink[i].rec.content = B
                     /\ sink[i].rec.hash = H
                     /\ "content_hash" \in DOMAIN sink[j].rec
                     /\ sink[j].rec.content_hash = H

\* C5: under capture policy 'none' no body capture listener is ever constructed
\* or attached to a Pending-Response Buffer, and every completed event that is
\* not self-originated has its http_responses record as soon as it is handled.
PolicyNone ==
    \A g \in Gens : ~cfg[g].saveJavascript /\ ~cfg[g].saveAllContent

C5_PolicyNoneNeverAttaches ==
    PolicyNone =>
        /\ listeners = <<>>
        /\ rasm = <<>>
        /\ \A t \in TIDs : pendingResponses[t].listener = 0
        /\ (last.channel = "onCompleted" /\ ~SelfOriginated(last.details)) =>
              /\ Cardinality(Calls("saveRecord", "http_responses", last.n)) = 1
              /\ \A i \in Calls("saveRecord", "http_responses", last.n) :
                    sink[i].rec.request_id = last.details.requestId

C5_Witness ==
    /\ PolicyNone
    /\ last.channel = "onCompleted"
    /\ ~SelfOriginated(last.details)
    /\ last.details.type = "script"
    /\ pendingResponses[last.details.requestId].body.resolved
    /\ Cardinality(Calls("saveRecord", "http_responses", last.n)) = 1

\* ------------------------------------------------------------------
NoSubscription == \A c \in Channels : subs[c] = {}

\* C6: cleanup() before any run() makes no removeListener call and leaves no
\* subscription; after one run(), complete or failed part-way, one cleanup()
\* or more leave no channel subscribed, the second cleanup() changing nothing.
C6_StopIdempotent ==
    /\ life.runs = 0 => (life.removeCalls = 0 /\ NoSubscription)
    /\ (life.runs = 1 /\ life.lastOp = "cleanup") => NoSubscription
    /\ (life.runs = 1 /\ life.cleanups >= 1) => life.removeCalls <= 4 * life.cleanups

C6_Witness ==
    /\ life.runs = 1
    /\ life.cleanups = 2
    /\ life.lastOp = "cleanup"
    /\ life.removeCalls > 4
    /\ NoSubscription

\* C7 (as stated): whenever cleanup() was the last lifecycle call, no listener
\* of any earlier run() is still subscribed on any channel.
C7_StopUnsubscribesEverything ==
    life.lastOp = "cleanup" => NoSubscription

\* the step handles one more event
EventStep == last'.n = last.n + 1

\* C8: a step that handles an event whose originUrl contains "moz-extension://"
\* changes neither buffer map, attaches no listener, starts no assembly and
\* makes no data receiver call; an event without originUrl is processed: its
\* fragment is resolved, its assembly started or its record emitted.
C8_SelfOriginatedDiscarded ==
    [][ /\ (EventStep /\ SelfOriginated(last'.details)) => UNCHANGED engine
        /\ (EventStep /\ last'.details.originUrl = NoUrl) =>
              LET d == last'.details
                  id == d.requestId
              IN CASE last'.channel = "onBeforeRequest" ->
                         /\ pendingRequests'[id].body.resolved /\ pendingRequests'[id].body.val = d
                         /\ pendingResponses'[id].body.resolved /\ pendingResponses'[id].body.val = d
                   [] last'.channel = "onBeforeSendHeaders" ->
                         /\ pendingRequests'[id].headers.resolved /\ pendingRequests'[id].headers.val = d
                         /\ Len(asm') = Len(asm) + 1
                   [] last'.channel = "onBeforeRedirect" ->
                         Len(sink') = Len(sink) + 1
                   [] OTHER ->
                         /\ pendingResponses'[id].completed.resolved /\ pendingResponses'[id].completed.val = d
                         /\ Len(sink') + Len(rasm') > Len(sink) + Len(rasm)
      ]_vars

\* a self-originated completed event came second, for a transaction whose
\* first event was processed, and left no trace
C8_Witness ==
    /\ last.n = 2
    /\ last.channel = "onCompleted"
    /\ SelfOriginated(last.details)
    /\ pendingRequests[last.details.requestId].body.resolved
    /\ ~pendingResponses[last.details.requestId].completed.resolved
    /\ sink = <<>>
    /\ rasm = <<>>

\* C9: a step that handles a pre-redirect event that is not self-originated
\* appends exactly one http_redirects record to the sink, with old_request_id
\* the event's id, new_request_id null and the event's timestamp, and leaves
\* both buffer maps (and every assembly) as they were.
C9_RedirectRecord ==
    [][ (EventStep /\ last'.channel = "onBeforeRedirect"
                   /\ ~SelfOriginated(last'.details)) =>
            /\ Len(sink') = Len(sink) + 1
            /\ SubSeq(sink', 1, Len(sink)) = sink
            /\ LET call == sink'[Len(sink')]
               IN /\ call.op = "saveRecord"
                  /\ call.table = "http_redirects"
                  /\ call.rec.old_request_id = last'.details.requestId
                  /\ call.rec.new_request_id = Null
                  /\ call.rec.time_stamp = toISOString(last'.details.timeStamp)
                  /\ call.rec.crawl_id = cfg[last'.gen].crawlID
            /\ UNCHANGED <<pendingRequests, pendingResponses, listeners, asm, rasm>>
      ]_vars

\* a redirect handled at 1000 ms for a transaction that has a waiting assembly
C9_Witness ==
    /\ last.channel = "onBeforeRedirect"
    /\ ~SelfOriginated(last.details)
    /\ last.details.timeStamp = 1000
    /\ \E k \in DOMAIN asm :
          asm[k].requestId = last.details.requestId /\ asm[k].pc = "wait"
    /\ sink # <<>>
    /\ sink[Len(sink)].table = "http_redirects"
    /\ sink[Len(sink)].rec.time_stamp = <<1970, 1, 1, 0, 0, 1, 0>>
    /\ ~pendingResponses[last.details.requestId].exists

\* C10 (as stated): every request assembly whose handler has ended has emitted
\* exactly one http_requests record, and none emits more than one.
C10_OneRequestRecordPerEvent ==
    \A k \in DOMAIN asm :
        /\ Cardinality(Calls("saveRecord", "http_requests", asm[k].ev)) <= 1
        /\ Finished(asm[k]) =>
              Cardinality(Calls("saveRecord", "http_requests", asm[k].ev)) = 1

\* a request handler suspended on the body wait (lines 284 and 290) or on the
\* tab lookup
Suspended(a) == a.pc \in {"wait", "read", "tab"}

\* C11: while a request handler is suspended on the body wait or on the tab
\* lookup, every event the host has to deliver, on any channel and for any
\* transaction, can be handled; in particular the pre-request event of the
\* transaction whose body fragment the handler is waiting for.
C11_SuspendedAssemblerDoesNotBlock ==
    \A i \in DOMAIN asm :
        Suspended(asm[i]) /\ last.n < MaxHostEvents =>
            /\ \A ch \in Channels, id \in TIDs :
                  HostMayDeliver(ch, id) =>
                      \A d \in HostDetails(ch, id) : ENABLED HostEvent(ch, id, d)
            /\ asm[i].pc = "wait" /\ ~pendingRequests[asm[i].requestId].body.resolved =>
                  \A d \in HostDetails("onBeforeRequest", asm[i].requestId) :
                      ENABLED HostEvent("onBeforeRequest", asm[i].requestId, d)

\* transaction A is still suspended on its body wait, without a record, and
\* the request record and the response record of another transaction, whose
\* events all came later, are already emitted
C11_Witness ==
    \E i \in DOMAIN asm :
        /\ asm[i].pc = "wait"
        /\ Calls("saveRecord", "http_requests", asm[i].ev) = {}
        /\ \E j, k \in DOMAIN sink :
              /\ sink[j].table = "http_requests"
              /\ sink[k].table = "http_responses"
              /\ sink[j].ev > asm[i].ev
              /\ sink[k].ev > asm[i].ev
              /\ sink[j].rec.request_id # asm[i].requestId
              /\ sink[k].rec.request_id # asm[i].requestId

\* what the two events of a POST transaction determine, whatever their order:
\* the header list and the POST body of its request record
RecordHeaders(sendHeaders, request) ==
    LET postObj == parsePostRequest(EncodingType(sendHeaders.requestHeaders), request)
        upload == IF request.requestBody # "absent" /\ "post_headers" \in DOMAIN postObj
                  THEN SelectSeq(postObj.post_headers,
                                 LAMBDA h : h[1] \in {"Content-Type", "Content-Disposition",
                                                      "Content-Length"})
                  ELSE <<>>
    IN HeaderPairs(sendHeaders.requestHeaders) \o upload

RecordPostBody(sendHeaders, request) ==
    LET postObj == parsePostRequest(EncodingType(sendHeaders.requestHeaders), request)
    IN IF request.requestBody # "absent" /\ "post_body" \in DOMAIN postObj
       THEN <<postObj.post_body>>
       ELSE <<>>

PostBodyOf(update) == IF "post_body" \in DOMAIN update THEN <<update.post_body>> ELSE <<>>

\* C12: a POST, non-OCSP transaction that received one pre-request and one
\* pre-send-headers event, the pre-request event before the wait's deadline,
\* logs no timeout error, does not stay in the wait (its handler can resume
\* and the timer cannot fire), and once it has read the fragment the header
\* list and POST body of its record are the function of the two events given
\* above, whichever of the two was handled first.
C12_OrderIndependent ==
    \A i \in DOMAIN asm :
        LET a == asm[i]
            pr == pendingRequests[a.requestId]
        IN (/\ a.needsBody
            /\ pr.body.writes = 1
            /\ pr.headers.writes = 1
            /\ pr.body.val.timeStamp < a.waitStart + TimeoutMs
            /\ ~a.threw)
           => /\ a.pc = "wait" => (ENABLED WaitResolved(i) /\ ~ENABLED Timeout(i))
              /\ a.pc = "read" => ENABLED ReadBody(i)
              /\ ~a.timedOut
              /\ Calls("logError", "", a.ev) = {}
              /\ a.pc \in {"tab", "done"} =>
                    /\ a.update.headers = RecordHeaders(pr.headers.val, pr.body.val)
                    /\ PostBodyOf(a.update) = RecordPostBody(pr.headers.val, pr.body.val)
              /\ \A k \in Calls("saveRecord", "http_requests", a.ev) :
                    /\ sink[k].rec.headers = RecordHeaders(pr.headers.val, pr.body.val)
                    /\ PostBodyOf(sink[k].rec) = RecordPostBody(pr.headers.val, pr.body.val)

\* two transactions with the same upload, one handled pre-request first and one
\* pre-send-headers first, have both emitted their record, with the same POST
\* body and header list
C12_Witness ==
    \E i, j \in DOMAIN asm :
        /\ asm[i].requestId # asm[j].requestId
        /\ asm[i].bodyAtStart /\ ~asm[i].waited
        /\ asm[j].waited /\ ~asm[j].bodyAtStart
        /\ \E k \in Calls("saveRecord", "http_requests", asm[i].ev),
              l \in Calls("saveRecord", "http_requests", asm[j].ev) :
              /\ "post_body" \in DOMAIN sink[k].rec
              /\ "post_body" \in DOMAIN sink[l].rec
              /\ sink[k].rec.post_body = sink[l].rec.post_body
              /\ sink[k].rec.headers = sink[l].rec.headers
              /\ Len(sink[k].rec.headers) > 0

\* the capture policy, as the specification words it
CaptureRequired(c, resourceType) ==
    c.saveAllContent \/ (c.saveJavascript /\ resourceType = "script")

\* the step constructed a body capture listener and attached it to the
\* Pending-Response Buffer of id
AttachedInStep(id) ==
    /\ Len(listeners') = Len(listeners) + 1
    /\ listeners'[Len(listeners')].requestId = id
    /\ pendingResponses'[id].listener = Len(listeners')

\* the step's response assembler went to wait for the body capture listener
\* that the buffer of id holds
AwaitsInStep(id) ==
    /\ Len(rasm') = Len(rasm) + 1
    /\ rasm'[Len(rasm')].listener = pendingResponses[id].listener
    /\ rasm'[Len(rasm')].listener # 0

\* C13: a step that handles a pre-request event that is not self-originated
\* attaches a body capture listener to the transaction's Pending-Response
\* Buffer if and only if the policy requires capture for the event's type, and
\* otherwise leaves the listeners alone; a step that handles a completed event
\* takes the capture path under the same predicate; and when the completed
\* event follows the only pre-request event of its transaction, with the same
\* type, the assembler awaits a listener if and only if one was attached.
C13_AttachMatchesCapture ==
    [][ EventStep /\ ~SelfOriginated(last'.details) =>
          LET d == last'.details
              id == d.requestId
              c == cfg[last'.gen]
          IN /\ last'.channel = "onBeforeRequest" =>
                   IF CaptureRequired(c, d.type)
                   THEN AttachedInStep(id)
                   ELSE /\ listeners' = listeners
                        /\ pendingResponses'[id].listener = pendingResponses[id].listener
             /\ last'.channel = "onCompleted" =>
                   /\ (\/ rasm' # rasm
                       \/ \E k \in DOMAIN sink' :
                             sink'[k].op = "logError" /\ sink'[k].ev = last'.n)
                         <=> CaptureRequired(c, d.type)
                   /\ (pendingResponses[id].body.writes = 1
                         /\ pendingResponses[id].body.val.type = d.type) =>
                         /\ AwaitsInStep(id) <=> pendingResponses[id].listener # 0
                         /\ AwaitsInStep(id) <=> CaptureRequired(c, d.type)
      ]_vars

\* under the scripts-only policy, a script transaction's completed event went
\* to await the listener its pre-request event had attached
C13_Witness ==
    /\ last.channel = "onCompleted"
    /\ cfg[1].saveJavascript /\ ~cfg[1].saveAllContent
    /\ last.details.type = "script"
    /\ pendingResponses[last.details.requestId].body.resolved
    /\ pendingResponses[last.details.requestId].body.val.type = "script"
    /\ \E r \in DOMAIN rasm :
          /\ rasm[r].ev = last.n
          /\ rasm[r].listener = pendingResponses[last.details.requestId].listener
          /\ listeners[rasm[r].listener].requestId = last.details.requestId

\* C14: a request handler whose event's method is not "POST", or that carries
\* a header named exactly Content-Type whose value contains
\* "application/ocsp-request", never waits on the buffer, logs no timeout
\* error, takes nothing from the parser and emits a record without post_body,
\* whether or not the transaction's body fragment is resolved.
C14_NonPostAndOcspSkipBody ==
    \A i \in DOMAIN asm :
        LET a == asm[i]
            d == a.details
            skipped ==
                \/ d.method # "POST"
                \/ \E h \in 1..Len(d.requestHeaders) :
                      /\ d.requestHeaders[h][1] = "Content-Type"
                      /\ \E t \in 1..Len(d.requestHeaders[h][2]) :
                            d.requestHeaders[h][2][t] = "application/ocsp-request"
        IN skipped =>
              /\ ~a.waited /\ a.pc # "wait"
              /\ ~a.timedOut /\ ~a.threw
              /\ Calls("logError", "", a.ev) = {}
              /\ "post_body" \notin DOMAIN a.update
              /\ a.update.headers = HeaderPairs(d.requestHeaders)
              /\ \A k \in Calls("saveRecord", "http_requests", a.ev) :
                    /\ "post_body" \notin DOMAIN sink[k].rec
                    /\ sink[k].rec.headers = HeaderPairs(d.requestHeaders)

\* a POST with an OCSP Content-Type, whose pre-request event had resolved the
\* body fragment with a decodable upload, has emitted its record
C14_Witness ==
    \E i \in DOMAIN asm :
        LET pr == pendingRequests[asm[i].requestId]
        IN /\ asm[i].pc = "done"
           /\ asm[i].bodyAtStart
           /\ pr.body.val.requestBody = "multipart"
           /\ asm[i].details.method = "POST"
           /\ asm[i].details.requestHeaders = << <<"Content-Type", OcspType>> >>
           /\ Calls("saveRecord", "http_requests", asm[i].ev) # {}

\* C15 (as stated): with a host that reuses a transaction id only after the
\* earlier transaction with that id has fully completed, every fragment slot of
\* every buffer has received at most one resolve call.
C15_SingleAssignment ==
    \A id \in TIDs :
        /\ pendingRequests[id].body.writes <= 1
        /\ pendingRequests[id].headers.writes <= 1
        /\ pendingResponses[id].body.writes <= 1
        /\ pendingResponses[id].completed.writes <= 1

\* C16: a step that handles a completed event, not self-originated, for which
\* the policy does not require capture appends exactly one call to the data
\* receiver, the saveRecord of the http_responses record of this event, within
\* the same step; it starts no wait on a body capture listener, touches no
\* listener and makes no saveContent or logError call.
C16_NoCaptureEmitsSynchronously ==
    [][ (/\ EventStep
         /\ last'.channel = "onCompleted"
         /\ ~SelfOriginated(last'.details)
         /\ ~CaptureRequired(cfg[last'.gen], last'.details.type)) =>
            /\ Len(sink') = Len(sink) + 1
            /\ SubSeq(sink', 1, Len(sink)) = sink
            /\ LET call == sink'[Len(sink')]
               IN /\ call.op = "saveRecord"
                  /\ call.table = "http_responses"
                  /\ call.ev = last'.n
                  /\ call.rec.request_id = last'.details.requestId
                  /\ call.rec.is_cached = (IF last'.details.fromCache THEN 1 ELSE 0)
                  /\ "content_hash" \notin DOMAIN call.rec
            /\ rasm' = rasm
            /\ listeners' = listeners
            /\ asm' = asm
      ]_vars

\* under the scripts-only policy the completed event of an image, a cache hit,
\* has its record in the data receiver right after the step that handled it,
\* while a request handler of the same transaction is still suspended
C16_Witness ==
    /\ last.channel = "onCompleted"
    /\ cfg[1].saveJavascript /\ ~cfg[1].saveAllContent
    /\ last.details.type = "image"
    /\ last.details.originUrl = WebOrigin
    /\ last.details.fromCache
    /\ sink # <<>>
    /\ sink[Len(sink)].ev = last.n
    /\ sink[Len(sink)].table = "http_responses"
    /\ sink[Len(sink)].rec.is_cached = 1
    /\ \E i \in DOMAIN asm :
          asm[i].requestId = last.details.requestId /\ Suspended(asm[i])

\* C17 (as stated): a POST, non-OCSP request handler whose body fragment
\* resolved in time and whose parser call failed, by throwing or by returning
\* neither post_headers nor post_body, and that did not end in the tab lookup,
\* has emitted exactly one http_requests record, without post_body and with
\* the event's headers only, and has logged no error.
C17_ParseFailureMeansNoBody ==
    \A i \in DOMAIN asm :
        LET a == asm[i]
            pr == pendingRequests[a.requestId]
        IN (/\ a.needsBody
            /\ ~a.timedOut
            /\ pr.body.writes = 1
            /\ pr.body.val.requestBody \in {"undecodable", ThrowingBody}
            /\ (a.pc = "done" \/ a.threw))
           => /\ Cardinality(Calls("saveRecord", "http_requests", a.ev)) = 1
              /\ \A k \in Calls("saveRecord", "http_requests", a.ev) :
                    /\ "post_body" \notin DOMAIN sink[k].rec
                    /\ sink[k].rec.headers = HeaderPairs(a.details.requestHeaders)
              /\ Calls("logError", "", a.ev) = {}

AllowedUploadHeaders == {"Content-Type", "Content-Disposition", "Content-Length"}

\* the header list starts with the event's headers, in event order, and goes
\* on with exactly the allow-listed entries of post_headers, in their order
AllowListed(headerList, details, post_headers) ==
    LET n == Len(details.requestHeaders)
    IN /\ Len(headerList) >= n
       /\ \A j \in 1..n :
             headerList[j] = <<details.requestHeaders[j][1], details.requestHeaders[j][2]>>
       /\ SubSeq(headerList, n + 1, Len(headerList)) =
             SelectSeq(post_headers, LAMBDA h : h[1] \in AllowedUploadHeaders)
       /\ \A j \in (n + 1)..Len(headerList) : headerList[j][1] \in AllowedUploadHeaders

\* C18: the header list of a request record is the event's headers followed
\* by the allow-listed post_headers entries of the parser's result when the
\* parser was called (POST, not OCSP, fragment in time, an upload present), and
\* the event's headers alone otherwise; no other post_headers entry appears.
C18_UploadHeaderAllowList ==
    \A i \in DOMAIN asm :
        LET a == asm[i]
            pr == pendingRequests[a.requestId]
            postObj == parsePostRequest(a.encodingType, pr.body.val)
            parsed == /\ a.needsBody /\ ~a.timedOut
                      /\ pr.body.val.requestBody # "absent"
                      /\ "post_headers" \in DOMAIN postObj
            expected == IF parsed THEN postObj.post_headers ELSE <<>>
        IN (pr.body.writes <= 1 /\ "headers" \in DOMAIN a.update) =>
              /\ AllowListed(a.update.headers, a.details, expected)
              /\ \A k \in Calls("saveRecord", "http_requests", a.ev) :
                    AllowListed(sink[k].rec.headers, a.details, expected)

\* a record of a form POST whose upload carried a line that looks like a
\* header: the event's Content-Type comes first, then Content-Disposition and
\* Content-Length of the upload, and the other line is not there
C18_Witness ==
    \E k \in DOMAIN sink :
        /\ sink[k].table = "http_requests"
        /\ sink[k].rec.headers =
              << <<"Content-Type", FormType>>,
                 <<"Content-Disposition", <<"form-data">> >>,
                 <<"Content-Length", <<"42">> >> >>
        /\ \E j \in 1..Len(MultipartHeaders) : MultipartHeaders[j][1] = "X-Payload-Line"

\* the buffer is the one that was there: no fragment it held is gone
SameRequestBuffer(old, new) ==
    /\ new.exists
    /\ new.body.writes >= old.body.writes /\ new.headers.writes >= old.headers.writes
    /\ old.body.resolved => new.body.resolved
    /\ old.headers.resolved => new.headers.resolved

SameResponseBuffer(old, new) ==
    /\ new.exists
    /\ new.body.writes >= old.body.writes /\ new.completed.writes >= old.completed.writes
    /\ old.body.resolved => new.body.resolved
    /\ old.completed.resolved => new.completed.resolved
    /\ old.listener # 0 => new.listener # 0

\* C19: a step that handles an event of transaction id A leaves the buffers
\* of every other id as they were, existence and contents, releases or alters
\* no handler of another id, creates only the buffers of A that the event's
\* listener refers to, and where A already had a buffer goes on with that one.
C19_BuffersIndependent ==
    [][ EventStep =>
          LET A == last'.details.requestId
              ch == last'.channel
          IN /\ \A B \in TIDs \ {A} :
                   /\ pendingRequests'[B] = pendingRequests[B]
                   /\ pendingResponses'[B] = pendingResponses[B]
             /\ \A i \in DOMAIN asm : asm[i].requestId # A => asm'[i] = asm[i]
             /\ \A r \in DOMAIN rasm : rasm[r].requestId # A => rasm'[r] = rasm[r]
             /\ \A l \in DOMAIN listeners : listeners'[l] = listeners[l]
             /\ pendingRequests[A].exists =>
                   SameRequestBuffer(pendingRequests[A], pendingRequests'[A])
             /\ pendingResponses[A].exists =>
                   SameResponseBuffer(pendingResponses[A], pendingResponses'[A])
             /\ ch \in {"onBeforeRedirect", "onCompleted"} =>
                   pendingRequests'[A] = pendingRequests[A]
             /\ ch \in {"onBeforeRedirect", "onBeforeSendHeaders"} =>
                   pendingResponses'[A] = pendingResponses[A]
             /\ (~SelfOriginated(last'.details) /\ ch = "onBeforeRequest") =>
                   pendingRequests'[A].exists /\ pendingResponses'[A].exists
      ]_vars

\* the pre-request event of transaction 2 was handled while a handler of
\* transaction 1 waits for its own: that handler still waits, transaction 1 has
\* no Pending-Response Buffer and an unresolved body fragment, and
\* transaction 2 has both its buffers
C19_Witness ==
    /\ last.channel = "onBeforeRequest"
    /\ last.details.requestId = 2
    /\ pendingRequests[2].body.resolved /\ pendingResponses[2].exists
    /\ ~pendingRequests[2].headers.resolved
    /\ pendingRequests[1].exists /\ ~pendingRequests[1].body.resolved
    /\ ~pendingResponses[1].exists
    /\ \E i \in DOMAIN asm : asm[i].requestId = 1 /\ asm[i].pc = "wait"

\* C20 (as stated): with a host that reuses a transaction id only after the
\* earlier transaction with that id has fully completed, a request handler
\* that finds the body fragment resolved when it starts finds the fragment of
\* its own transaction's pre-request event, so that neither its wait nor its
\* post_body is served by an earlier transaction; and a response handler that
\* awaits a body capture listener awaits the one its own transaction attached.
C20_NoStaleDataOnReuse ==
    /\ \A i \in DOMAIN asm :
          (asm[i].needsBody /\ asm[i].bodyAtStart) => asm[i].bodyWrites = asm[i].txn
    /\ \A r \in DOMAIN rasm :
          listeners[rasm[r].listener].txn = rasm[r].txn

\* what is left for a handler in flight to do can be done: the tab lookup can
\* resolve, a resolved wait can resume and read the fragment, an expired wait
\* can time out, a settled body capture can be read
CanContinue ==
    /\ \A i \in DOMAIN asm :
          /\ asm[i].pc = "tab" /\ asm[i].tabId >= 0 =>
                \A url \in TabUrls : ENABLED TabResolve(i, url)
          /\ asm[i].pc = "wait" /\ Resolved(pendingRequests[asm[i].requestId]) =>
                ENABLED WaitResolved(i)
          /\ asm[i].pc = "read" => ENABLED ReadBody(i)
          /\ (/\ asm[i].pc = "wait"
              /\ ~Resolved(pendingRequests[asm[i].requestId])
              /\ now >= asm[i].waitStart + TimeoutMs) =>
                ENABLED Timeout(i)
    /\ \A r \in DOMAIN rasm :
          /\ rasm[r].pc = "awaitBody" /\ listeners[rasm[r].listener].body # "pending" =>
                ENABLED ContinueBody(r)
          /\ rasm[r].pc = "awaitHash" => ENABLED ContinueHash(r)
    /\ \A l \in DOMAIN listeners :
          listeners[l].body = "pending" => ENABLED StreamEnd(l, "ok", "hello")

\* C21: a step that is a cleanup() call changes the channel subscriptions
\* only: both buffer maps, the body capture listeners, every handler in
\* flight and the data receiver's calls are as before; and after cleanup(),
\* even with no subscription left, every handler in flight can go on to its
\* timeout error and its record.
C21_StopDoesNotCancel ==
    /\ [][ life'.cleanups = life.cleanups + 1 =>
              /\ UNCHANGED <<pendingRequests, pendingResponses, listeners, asm, rasm,
                             sink, fields, cfg, now, last>>
              /\ \A c \in Channels : subs'[c] \subseteq subs[c]
         ]_vars
    /\ [](life.lastOp = "cleanup" => CanContinue)

\* after cleanup() left no subscription, a request handler that was waiting
\* for its body fragment logged its timeout error and emitted its record, and
\* a response handler that was awaiting body capture emitted its record too
C21_Witness ==
    /\ life.lastOp = "cleanup"
    /\ \A c \in Channels : subs[c] = {}
    /\ \E i \in DOMAIN asm :
          /\ asm[i].pc = "done" /\ asm[i].timedOut
          /\ \E k \in Calls("logError", "", asm[i].ev) : k > life.sinkAtStop
          /\ \E k \in Calls("saveRecord", "http_requests", asm[i].ev) : k > life.sinkAtStop
    /\ \E r \in DOMAIN rasm :
          /\ rasm[r].pc = "done"
          /\ \E k \in Calls("saveRecord", "http_responses", rasm[r].ev) : k > life.sinkAtStop

\* ------------------------------------------------------------------
\* the filter named by the claim
Forwardable(msg) ==
    msg.namespace = "javascript-instrumentation" /\ msg.type \in {"logCall", "logValue"}

\* run() was called and cleanup() has not removed its listener since
ForwarderRunning == js.onMessageListener # 0 /\ js.onMessageListener \in js.subs

\* C22 (as stated): a runtime message received while the forwarder is running
\* saves exactly one "javascript" record when its namespace is
\* "javascript-instrumentation" and its type is "logCall" or "logValue", and
\* saves nothing otherwise; the record carries arguments exactly when the
\* operation is "call" and the argument list is non-empty; handling a message
\* changes nothing in the instrument; cleanup() before run() removes nothing,
\* and after run() it removes the message listener.
C22_StatelessForwarder ==
    [][ /\ (js'.n = js.n + 1 /\ ForwarderRunning) =>
              /\ js'.subs = js.subs
              /\ js'.onMessageListener = js.onMessageListener
              /\ js'.crawlID = js.crawlID
              /\ ~Forwardable(js'.msg) => sink' = sink
              /\ Forwardable(js'.msg) =>
                    /\ Len(sink') = Len(sink) + 1
                    /\ SubSeq(sink', 1, Len(sink)) = sink
                    /\ LET call == sink'[Len(sink')]
                           data == js'.msg.data
                       IN /\ call.op = "saveRecord"
                          /\ call.table = "javascript"
                          /\ ("arguments" \in DOMAIN call.rec) <=>
                                (data.operation = "call" /\ data.args.defined
                                    /\ data.args.items # <<>>)
        /\ js'.cleanups = js.cleanups + 1 =>
              /\ sink' = sink
              /\ js.runs = 0 => (js'.subs = js.subs /\ js'.removeCalls = js.removeCalls)
              /\ js.runs > 0 => (/\ js.onMessageListener \notin js'.subs
                                 /\ js'.removeCalls = js.removeCalls + 1) ]_vars

====
